---- MODULE Spec2Model ----
(***************************************************************************)
(* Verification model of src/src/utils/helpers.js of the AEM dashboard     *)
(* simulator: the rate-limiting wrappers debounce and throttle running on  *)
(* the single-threaded timer facility of the host (setTimeout and          *)
(* clearTimeout), and the collection helpers filterBySearch and sortByKey. *)
(***************************************************************************)
EXTENDS Integers, Sequences, FiniteSets

\* ------------------------------------------------------------------ bounds
\* Last instant of the modelled time line (one unit stands for one slice of
\* the millisecond clock).
MaxTime == 4
\* Invocations of wrapped functions in one run, all wrappers together.
MaxCalls == 3
\* `wait` handed to debounce and `limit` handed to throttle, in time units.
Wait == 2
Limit == 2
\* How long after its due time the host may still be running other tasks
\* before it runs a timer callback.
MaxLate == 1

\* ---------------------------------------------------------------- wrappers
Debouncers == {"d1", "d2"}
Throttlers == {"t1", "t2"}
Wrappers == Debouncers \cup Throttlers
\* Arguments an invocation passes on; the wrappers never look inside them.
Args == {"a", "b"}

VARIABLES
    now,        \* the host clock
    timers,     \* pending timers of the host: [id, due, w, arg, call]
    nextId,     \* the handle the next setTimeout returns
    timeout,    \* debounce: `let timeout` of each wrapper's closure, 0 = undefined
    inThrottle, \* throttle: `let inThrottle` of each wrapper's closure
    calls,      \* history: invocations of each wrapper, [t, arg]
    execs,      \* history: executions of each wrapped fn, [t, arg, call, id]
    cancelled,  \* history: handles cleared while their timer was pending
    pc,         \* position of the helper call: "idle", "ready" or "done"
    fArray,     \* filterBySearch: the argument `array`
    fTerm,      \* filterBySearch: the argument `searchTerm`
    fKeys,      \* filterBySearch: the argument `keys`
    filtered,   \* filterBySearch: the value returned
    sArray,     \* sortByKey: the argument `array`
    sKey,       \* sortByKey: the argument `key`
    sOrder,     \* sortByKey: the argument `order`
    sorted,     \* sortByKey: the value returned
    sHeap,      \* sortByKey: the array objects, by reference; 1 is `array`
    sRet,       \* sortByKey: the reference returned, 0 before the return
    tIn,        \* string and date helpers: the argument
    tOut,       \* string and date helpers: the function called and its outcome
    components, \* Components view: data().components
    vLoading,   \* Components view: data().loading
    searchQuery,  \* Components view: data().searchQuery
    filterType,   \* Components view: data().filterType
    filterStatus, \* Components view: data().filterStatus
    keystrokes, \* history: input events of the search field
    showCreateForm, \* Components view: data().showCreateForm, the v-if of AemForm
    handlers,   \* Components view: the handleFormSubmit calls, "pending", "done" or "threw"
    fields,     \* AemForm: the prop `fields`
    formData,   \* AemForm: data().formData
    errors,     \* AemForm: data().errors
    fLoading,   \* AemForm: data().loading
    successMessage, \* AemForm: data().successMessage
    errorMessage,   \* AemForm: data().errorMessage
    fpc,        \* AemForm: "none" unmounted, "idle", or "awaiting" inside handleSubmit
    instance,   \* history: the AemForm instances created so far
    submitCalls, \* history: the invocations of handleSubmit
    emitted,    \* history: the 'submit' events, [data, instance]
    editingComponent, \* Components view: data().editingComponent
    requests,   \* Components view: the API calls of handleFormSubmit and deleteComponent
    declined,   \* history: confirm() dialogs of deleteComponent answered with Cancel
    detailId,   \* ComponentDetail: the prop `id`, 0 while the view is not mounted
    detailComponent, \* ComponentDetail: data().component
    detailLoading,   \* ComponentDetail: data().loading
    detailError,     \* ComponentDetail: data().error
    detailRequests,  \* ComponentDetail: the getById calls, [id, status]
    statistics,      \* Dashboard: data().statistics, as the number of the response held
    dashLoading,     \* Dashboard: data().loading
    dashError,       \* Dashboard: data().error
    statsRequests,   \* Dashboard: the statistics.get calls, [trigger, status]
    recentComponents,  \* Dashboard: data().recentComponents
    componentsLoading, \* Dashboard: data().componentsLoading
    recentRequest      \* Dashboard: the call of fetchRecentComponents

timerVars == <<now, timers, nextId, timeout, inThrottle, calls, execs, cancelled>>
filterVars == <<fArray, fTerm, fKeys, filtered>>
sortVars == <<sArray, sKey, sOrder, sorted, sHeap, sRet>>
textVars == <<tIn, tOut>>
helperVars == <<pc, filterVars, sortVars, textVars>>
viewVars == <<components, vLoading, searchQuery, filterType, filterStatus, keystrokes>>
parentVars == <<showCreateForm, handlers>>
formVars == <<fields, formData, errors, fLoading, successMessage, errorMessage, fpc,
              instance, submitCalls, emitted>>
listVars == <<editingComponent, requests, declined>>
detailVars == <<detailId, detailComponent, detailLoading, detailError, detailRequests>>
dashVars == <<statistics, dashLoading, dashError, statsRequests, recentComponents,
              componentsLoading, recentRequest>>
pageVars == <<detailVars, dashVars>>
uiVars == <<viewVars, parentVars, formVars, listVars, pageVars>>
vars == <<timerVars, helperVars, uiVars>>

\* Variant: one module-level `timeout` shared by all debounced wrappers.
HandleShared(w) == "d1"

\* The closure cell that holds a wrapper's timer handle: `let timeout` is
\* declared inside debounce, so every wrapper has a cell of its own.
Handle(w) == w

\* clearTimeout(id): the timer with that handle, if still pending, is dropped.
ClearTimeout(ts, id) == {tm \in ts : tm.id # id}

TotalCalls == LET RECURSIVE Sum(_)
                  Sum(S) == IF S = {} THEN 0
                            ELSE LET w == CHOOSE x \in S : TRUE
                                 IN Len(calls[w]) + Sum(S \ {w})
              IN Sum(Wrappers)

TimerInit ==
    /\ now = 0
    /\ timers = {}
    /\ nextId = 1
    /\ timeout = [w \in Debouncers |-> 0]
    /\ inThrottle = [w \in Throttlers |-> FALSE]
    /\ calls = [w \in Wrappers |-> <<>>]
    /\ execs = [w \in Wrappers |-> <<>>]
    /\ cancelled = {}

Pending(w) == {tm \in timers : tm.w = w}

\* Variant: the arguments of the call already waiting are kept.
DebounceCallStaleArgs(w, a) ==
    /\ w \in Debouncers
    /\ TotalCalls < MaxCalls
    /\ LET old == timeout[Handle(w)]
           kept == ClearTimeout(timers, old)
           gone == timers \ kept
           arg0 == IF gone = {} THEN a ELSE (CHOOSE tm \in gone : TRUE).arg
       IN /\ timers' = kept \cup {[id |-> nextId, due |-> now + Wait, w |-> w,
                                   arg |-> arg0, call |-> Len(calls[w]) + 1]}
          /\ cancelled' = cancelled \cup {tm.id : tm \in gone}
    /\ timeout' = [timeout EXCEPT ![Handle(w)] = nextId]
    /\ nextId' = nextId + 1
    /\ calls' = [calls EXCEPT ![w] = Append(@, [t |-> now, arg |-> a])]
    /\ UNCHANGED <<now, inThrottle, execs, helperVars, uiVars>>

\* Variant: the pending call is not cancelled (clearTimeout left out).
DebounceCallNoClear(w, a) ==
    /\ w \in Debouncers
    /\ TotalCalls < MaxCalls
    /\ timers' = timers \cup {[id |-> nextId, due |-> now + Wait, w |-> w,
                                arg |-> a, call |-> Len(calls[w]) + 1]}
    /\ timeout' = [timeout EXCEPT ![Handle(w)] = nextId]
    /\ nextId' = nextId + 1
    /\ calls' = [calls EXCEPT ![w] = Append(@, [t |-> now, arg |-> a])]
    /\ UNCHANGED <<now, inThrottle, execs, cancelled, helperVars, uiVars>>

\* debounce's executedFunction(...args): clearTimeout(timeout);
\* timeout = setTimeout(later, wait), `later` closing over args.
DebounceCall(w, a) ==
    /\ w \in Debouncers
    /\ TotalCalls < MaxCalls
    /\ LET old == timeout[Handle(w)]
           kept == ClearTimeout(timers, old)
       IN /\ timers' = kept \cup {[id |-> nextId, due |-> now + Wait, w |-> w,
                                   arg |-> a, call |-> Len(calls[w]) + 1]}
          /\ cancelled' = cancelled \cup {tm.id : tm \in timers \ kept}
    /\ timeout' = [timeout EXCEPT ![Handle(w)] = nextId]
    /\ nextId' = nextId + 1
    /\ calls' = [calls EXCEPT ![w] = Append(@, [t |-> now, arg |-> a])]
    /\ UNCHANGED <<now, inThrottle, execs, helperVars, uiVars>>

\* debounce's `later`, run by the host when the timer tm is due:
\* clearTimeout(timeout); func(...args).
Later(tm) ==
    /\ tm \in timers
    /\ tm.w \in Debouncers
    /\ tm.due <= now
    /\ LET rest == timers \ {tm}
           kept == ClearTimeout(rest, timeout[Handle(tm.w)])
       IN /\ timers' = kept
          /\ cancelled' = cancelled \cup {x.id : x \in rest \ kept}
    /\ execs' = [execs EXCEPT ![tm.w] =
                    Append(@, [t |-> now, arg |-> tm.arg, call |-> tm.call,
                               id |-> tm.id])]
    /\ UNCHANGED <<now, nextId, timeout, inThrottle, calls, helperVars, uiVars>>

\* Variant: the cooldown timer is set without the limit (fires at once).
ThrottleCallNoLimit(w, a) ==
    /\ w \in Throttlers
    /\ TotalCalls < MaxCalls
    /\ calls' = [calls EXCEPT ![w] = Append(@, [t |-> now, arg |-> a])]
    /\ IF ~inThrottle[w]
       THEN /\ execs' = [execs EXCEPT ![w] =
                   Append(@, [t |-> now, arg |-> a, call |-> Len(calls[w]) + 1,
                              id |-> 0])]
            /\ inThrottle' = [inThrottle EXCEPT ![w] = TRUE]
            /\ timers' = timers \cup {[id |-> nextId, due |-> now, w |-> w,
                                       arg |-> a, call |-> Len(calls[w]) + 1]}
            /\ nextId' = nextId + 1
       ELSE UNCHANGED <<execs, inThrottle, timers, nextId>>
    /\ UNCHANGED <<now, timeout, cancelled, helperVars, uiVars>>

\* Variant: the cooldown timer is set on every invocation, dropped or not.
ThrottleCallAlwaysTimer(w, a) ==
    /\ w \in Throttlers
    /\ TotalCalls < MaxCalls
    /\ calls' = [calls EXCEPT ![w] = Append(@, [t |-> now, arg |-> a])]
    /\ timers' = timers \cup {[id |-> nextId, due |-> now + Limit, w |-> w,
                               arg |-> a, call |-> Len(calls[w]) + 1]}
    /\ nextId' = nextId + 1
    /\ IF ~inThrottle[w]
       THEN /\ execs' = [execs EXCEPT ![w] =
                   Append(@, [t |-> now, arg |-> a, call |-> Len(calls[w]) + 1,
                              id |-> 0])]
            /\ inThrottle' = [inThrottle EXCEPT ![w] = TRUE]
       ELSE UNCHANGED <<execs, inThrottle>>
    /\ UNCHANGED <<now, timeout, cancelled, helperVars, uiVars>>

\* throttle's executedFunction(...args): if (!inThrottle) { func(...args);
\* inThrottle = true; setTimeout(() => inThrottle = false, limit) }.
ThrottleCall(w, a) ==
    /\ w \in Throttlers
    /\ TotalCalls < MaxCalls
    /\ calls' = [calls EXCEPT ![w] = Append(@, [t |-> now, arg |-> a])]
    /\ IF ~inThrottle[w]
       THEN /\ execs' = [execs EXCEPT ![w] =
                   Append(@, [t |-> now, arg |-> a, call |-> Len(calls[w]) + 1,
                              id |-> 0])]
            /\ inThrottle' = [inThrottle EXCEPT ![w] = TRUE]
            /\ timers' = timers \cup {[id |-> nextId, due |-> now + Limit, w |-> w,
                                       arg |-> a, call |-> Len(calls[w]) + 1]}
            /\ nextId' = nextId + 1
       ELSE UNCHANGED <<execs, inThrottle, timers, nextId>>
    /\ UNCHANGED <<now, timeout, cancelled, helperVars, uiVars>>

\* Variant: a trailing-edge throttle, the cooldown callback runs the last
\* invocation it dropped.
ThrottleResetTrailing(tm) ==
    /\ tm \in timers
    /\ tm.w \in Throttlers
    /\ tm.due <= now
    /\ timers' = timers \ {tm}
    /\ inThrottle' = [inThrottle EXCEPT ![tm.w] = FALSE]
    /\ execs' = IF Len(calls[tm.w]) > tm.call
                THEN [execs EXCEPT ![tm.w] =
                        Append(@, [t |-> now, arg |-> calls[tm.w][Len(calls[tm.w])].arg,
                                   call |-> Len(calls[tm.w]), id |-> tm.id])]
                ELSE execs
    /\ UNCHANGED <<now, nextId, timeout, calls, cancelled, helperVars, uiVars>>

\* throttle's cooldown callback, run by the host when the timer tm is due:
\* () => inThrottle = false.
ThrottleReset(tm) ==
    /\ tm \in timers
    /\ tm.w \in Throttlers
    /\ tm.due <= now
    /\ timers' = timers \ {tm}
    /\ inThrottle' = [inThrottle EXCEPT ![tm.w] = FALSE]
    /\ UNCHANGED <<now, nextId, timeout, calls, execs, cancelled, helperVars, uiVars>>

\* The clock advances while no timer is overdue by more than MaxLate.
Tick ==
    /\ now < MaxTime
    /\ \A tm \in timers : now < tm.due + MaxLate
    /\ now' = now + 1
    /\ UNCHANGED <<timers, nextId, timeout, inThrottle, calls, execs, cancelled, helperVars, uiVars>>

FilterIdle == fArray = <<>> /\ fTerm = <<>> /\ fKeys = <<>> /\ filtered = <<>>

SortIdle ==
    /\ sArray = <<>> /\ sKey = "" /\ sOrder = "" /\ sorted = <<>>
    /\ sHeap = <<>> /\ sRet = 0

TextIdle == tIn = <<>> /\ tOut = <<>>

\* The Components view is not mounted.
ViewIdle ==
    /\ components = <<>>
    /\ vLoading = FALSE
    /\ searchQuery = <<>>
    /\ filterType = <<>>
    /\ filterStatus = <<>>
    /\ keystrokes = 0

\* No AemForm is mounted.
FormUnmounted ==
    /\ formData = <<>>
    /\ errors = <<>>
    /\ fLoading = FALSE
    /\ successMessage = ""
    /\ errorMessage = ""
    /\ fpc = "none"

FormIdle ==
    /\ showCreateForm = FALSE
    /\ handlers = <<>>
    /\ fields = <<>>
    /\ FormUnmounted
    /\ instance = 0
    /\ submitCalls = 0
    /\ emitted = <<>>

\* The list operations of the Components view are not in use.
ListIdle ==
    /\ editingComponent = <<>>
    /\ requests = <<>>
    /\ declined = 0

\* The ComponentDetail view is not mounted.
DetailIdle ==
    /\ detailId = 0
    /\ detailComponent = <<>>
    /\ detailLoading = FALSE
    /\ detailError = ""
    /\ detailRequests = <<>>

\* The Dashboard view is not mounted.
DashIdle ==
    /\ statistics = 0
    /\ dashLoading = FALSE
    /\ dashError = ""
    /\ statsRequests = <<>>
    /\ recentComponents = <<>>
    /\ componentsLoading = FALSE
    /\ recentRequest = ""

PageIdle == DetailIdle /\ DashIdle

UiIdle == ViewIdle /\ FormIdle /\ ListIdle /\ PageIdle

\* No helper is being called.
HelperIdle ==
    /\ pc = "idle"
    /\ FilterIdle
    /\ SortIdle
    /\ TextIdle

Init == TimerInit /\ HelperIdle /\ UiIdle

Next ==
    \/ \E w \in Debouncers, a \in Args : DebounceCall(w, a)
    \/ \E tm \in timers : Later(tm)
    \/ \E w \in Throttlers, a \in Args : ThrottleCall(w, a)
    \/ \E tm \in timers : ThrottleReset(tm)
    \/ Tick

Spec == Init /\ [][Next]_vars

\* ------------------------------------------------------- values and strings
\* A string is a sequence of one-character strings. A field value is a
\* string, a number or null; a field a record lacks reads as undefined.
Str(s) == [type |-> "string", s |-> s, n |-> 0]
Num(n) == [type |-> "number", s |-> <<>>, n |-> n]
Null == [type |-> "null", s |-> <<>>, n |-> 0]
Undefined == [type |-> "undefined", s |-> <<>>, n |-> 0]
Bool(b) == [type |-> "boolean", s |-> <<>>, n |-> IF b THEN 1 ELSE 0]

\* item[key]
Get(item, key) == IF key \in DOMAIN item THEN item[key] ELSE Undefined

\* ToBoolean: "", 0, false, null and undefined are falsy.
Truthy(v) ==
    CASE v.type = "string" -> v.s # <<>>
      [] v.type = "number" -> v.n # 0
      [] v.type = "boolean" -> v.n = 1
      [] OTHER -> FALSE

DigitChars == <<"0", "1", "2", "3", "4", "5", "6", "7", "8", "9">>

RECURSIVE Digits(_)
Digits(n) == IF n < 10 THEN <<DigitChars[n + 1]>>
             ELSE Append(Digits(n \div 10), DigitChars[(n % 10) + 1])

\* value.toString() of a string or a non-negative integer
toString(v) == IF v.type = "string" THEN v.s ELSE Digits(v.n)

LowerChar(ch) ==
    CASE ch = "A" -> "a"
      [] ch = "B" -> "b"
      [] OTHER -> ch

\* String.prototype.toLowerCase
toLowerCase(s) == [i \in 1..Len(s) |-> LowerChar(s[i])]

\* String.prototype.includes
includes(s, t) == \E i \in 0..(Len(s) - Len(t)) : SubSeq(s, i + 1, i + Len(t)) = t

\* ------------------------------------------------------------ filterBySearch
\* Variant: the guard on an empty search term is left out.
filterBySearchNoGuard(array, searchTerm, keys) ==
    LET term == toLowerCase(searchTerm.s)
    IN SelectSeq(array, LAMBDA item :
           \E i \in 1..Len(keys) :
               LET value == Get(item, keys[i])
               IN Truthy(value) /\ includes(toLowerCase(toString(value)), term))

RECURSIVE PerKey(_, _, _)
\* Variant: one result per key that matches (a flatMap over the keys).
PerKey(array, term, keys) ==
    IF array = <<>> THEN <<>>
    ELSE LET item == Head(array)
             hits == SelectSeq(keys, LAMBDA k :
                        Truthy(Get(item, k))
                        /\ includes(toLowerCase(toString(Get(item, k))), term))
         IN [i \in 1..Len(hits) |-> item] \o PerKey(Tail(array), term, keys)

filterBySearchPerKey(array, searchTerm, keys) ==
    IF ~Truthy(searchTerm) THEN array
    ELSE PerKey(array, toLowerCase(searchTerm.s), keys)

\* if (!searchTerm) return array; otherwise array.filter(item =>
\* keys.some(key => item[key] && item[key].toString().toLowerCase()
\* .includes(searchTerm.toLowerCase()))).
filterBySearch(array, searchTerm, keys) ==
    IF ~Truthy(searchTerm) THEN array
    ELSE LET term == toLowerCase(searchTerm.s)
         IN SelectSeq(array, LAMBDA item :
                \E i \in 1..Len(keys) :
                    LET value == Get(item, keys[i])
                    IN Truthy(value) /\ includes(toLowerCase(toString(value)), term))

\* Longest array handed to filterBySearch.
MaxItems == 2

Fields == {"name", "n"}
FieldValues == {Null, Str(<<"A", "b">>), Num(0), Num(10)}
Records == UNION {[D -> FieldValues] : D \in SUBSET Fields}
Arrays == UNION {[1..k -> Records] : k \in 0..MaxItems}
Terms == {Str(<<>>), Null, Str(<<"a">>), Str(<<"B">>), Str(<<"0">>), Str(<<"1", "0">>)}
KeyLists == {<<>>, <<"name">>, <<"n">>, <<"zz">>, <<"name", "n">>, <<"zz", "n">>}

FilterInit ==
    /\ TimerInit
    /\ UiIdle
    /\ pc = "ready"
    /\ fArray \in Arrays
    /\ fTerm \in Terms
    /\ fKeys \in KeyLists
    /\ filtered = <<>>
    /\ SortIdle
    /\ TextIdle

FilterCall ==
    /\ pc = "ready"
    /\ filtered' = filterBySearch(fArray, fTerm, fKeys)
    /\ pc' = "done"
    /\ UNCHANGED <<timerVars, uiVars, fArray, fTerm, fKeys, sortVars, textVars>>

FilterNext == FilterCall

SpecFilter == FilterInit /\ [][FilterNext]_vars

\* ----------------------------------------------------------------- sortByKey
CharCode(ch) ==
    CASE ch = "0" -> 48 [] ch = "1" -> 49
      [] ch = "A" -> 65 [] ch = "B" -> 66
      [] ch = "a" -> 97 [] ch = "b" -> 98

RECURSIVE StrLess(_, _)
\* s < t on strings: code unit by code unit, a proper prefix first.
StrLess(s, t) ==
    IF t = <<>> THEN FALSE
    ELSE IF s = <<>> THEN TRUE
    ELSE IF Head(s) # Head(t) THEN CharCode(Head(s)) < CharCode(Head(t))
    ELSE StrLess(Tail(s), Tail(t))

\* valueA < valueB, for two strings or two numbers
Less(x, y) ==
    CASE x.type = "string" /\ y.type = "string" -> StrLess(x.s, y.s)
      [] x.type = "number" /\ y.type = "number" -> x.n < y.n

\* The comparator handed to sort.
Compare(a, b, key, order) ==
    LET valueA == Get(a, key)
        valueB == Get(b, key)
    IN IF Less(valueA, valueB) THEN (IF order = "asc" THEN -1 ELSE 1)
       ELSE IF Less(valueB, valueA) THEN (IF order = "asc" THEN 1 ELSE -1)
       ELSE 0

RECURSIVE InsertSorted(_, _, _, _)
InsertSorted(s, x, key, order) ==
    IF s = <<>> THEN <<x>>
    ELSE IF Compare(s[Len(s)], x, key, order) <= 0 THEN Append(s, x)
    ELSE Append(InsertSorted(SubSeq(s, 1, Len(s) - 1), x, key, order), s[Len(s)])

RECURSIVE ArraySort(_, _, _)
\* Array.prototype.sort with the comparator: a stable sort (ECMAScript 2019).
ArraySort(a, key, order) ==
    IF a = <<>> THEN <<>>
    ELSE InsertSorted(ArraySort(SubSeq(a, 1, Len(a) - 1), key, order),
                      a[Len(a)], key, order)

Reverse(s) == [i \in 1..Len(s) |-> s[Len(s) + 1 - i]]

\* Variant: descending order as the ascending result reversed.
sortByKeyReversed(array, key, order) ==
    IF order = "asc" THEN ArraySort(array, key, "asc")
    ELSE Reverse(ArraySort(array, key, "asc"))

\* [...array].sort((a, b) => ...): the value of the array returned
sortByKey(array, key, order) == ArraySort(array, key, order)

\* Variant: array.sort(...) on the argument itself, without the copy.
SortByKeyInPlace(heap, ref, key, order) ==
    [heap |-> [heap EXCEPT ![ref] = sortByKey(heap[ref], key, order)],
     ref |-> ref]

\* The same call on array objects: the spread allocates a new array with the
\* elements of `array`, sort orders that new array in place and returns it.
SortByKeyEffect(heap, ref, key, order) ==
    [heap |-> Append(heap, sortByKey(heap[ref], key, order)),
     ref |-> Len(heap) + 1]

\* Longest array handed to sortByKey.
MaxSortItems == 3

SortRecords == [n : {Num(2), Num(10)}, name : {Str(<<"a">>), Str(<<"B">>), Str(<<"a", "b">>)}]
SortArrays == UNION {[1..k -> SortRecords] : k \in 0..MaxSortItems}
SortKeys == {"n", "name"}
Orders == {"asc", "desc"}

SortInit ==
    /\ TimerInit
    /\ UiIdle
    /\ pc = "ready"
    /\ sArray \in SortArrays
    /\ sKey \in SortKeys
    /\ sOrder \in Orders
    /\ sorted = <<>>
    /\ sHeap = <<sArray>>
    /\ sRet = 0
    /\ FilterIdle
    /\ TextIdle

SortCall ==
    /\ pc = "ready"
    /\ LET effect == SortByKeyEffect(sHeap, 1, sKey, sOrder)
       IN /\ sHeap' = effect.heap
          /\ sRet' = effect.ref
          /\ sorted' = effect.heap[effect.ref]
    /\ pc' = "done"
    /\ UNCHANGED <<timerVars, uiVars, sArray, sKey, sOrder, filterVars, textVars>>

SortNext == SortCall

SpecSort == SortInit /\ [][SortNext]_vars

\* ------------------------------------------------------------ string helpers
\* What a call comes to: a value returned, or a TypeError thrown.
Return(v) == [threw |-> FALSE, v |-> v]
Throw == [threw |-> TRUE, v |-> Undefined]

IsString(v) == v.type = "string"

\* \s and \w of the regular expressions, on the characters in use
IsSpace(ch) == ch = " "
IsWord(ch) == ch \in {"a", "b", "A", "B", "0", "1", "_"}

UpperChar(ch) ==
    CASE ch = "a" -> "A"
      [] ch = "b" -> "B"
      [] OTHER -> ch

RECURSIVE TrimStart(_)
TrimStart(s) == IF s # <<>> /\ IsSpace(Head(s)) THEN TrimStart(Tail(s)) ELSE s

RECURSIVE TrimEnd(_)
TrimEnd(s) == IF s # <<>> /\ IsSpace(s[Len(s)])
              THEN TrimEnd(SubSeq(s, 1, Len(s) - 1)) ELSE s

\* String.prototype.trim
trim(s) == TrimEnd(TrimStart(s))

\* if (!str) return ''; str.charAt(0).toUpperCase() + str.slice(1)
capitalize(str) ==
    IF ~Truthy(str) THEN Return(Str(<<>>))
    ELSE Return(Str(<<UpperChar(Head(str.s))>> \o Tail(str.s)))

\* .replace(/[^\w\s-]/g, '')
RemoveSpecial(s) == SelectSeq(s, LAMBDA ch : IsWord(ch) \/ IsSpace(ch) \/ ch = "-")

IsSeparator(ch) == IsSpace(ch) \/ ch = "_" \/ ch = "-"

RECURSIVE SkipSeparators(_)
SkipSeparators(s) ==
    IF s # <<>> /\ IsSeparator(Head(s)) THEN SkipSeparators(Tail(s)) ELSE s

RECURSIVE CollapseSeparators(_)
\* .replace(/[\s_-]+/g, '-')
CollapseSeparators(s) ==
    IF s = <<>> THEN <<>>
    ELSE IF IsSeparator(Head(s))
         THEN <<"-">> \o CollapseSeparators(SkipSeparators(s))
         ELSE <<Head(s)>> \o CollapseSeparators(Tail(s))

RECURSIVE StripLeadingHyphens(_)
StripLeadingHyphens(s) ==
    IF s # <<>> /\ Head(s) = "-" THEN StripLeadingHyphens(Tail(s)) ELSE s

RECURSIVE StripTrailingHyphens(_)
StripTrailingHyphens(s) ==
    IF s # <<>> /\ s[Len(s)] = "-"
    THEN StripTrailingHyphens(SubSeq(s, 1, Len(s) - 1)) ELSE s

\* .replace(/^-+|-+$/g, '')
StripHyphens(s) == StripTrailingHyphens(StripLeadingHyphens(s))

\* Variant: the leading and trailing hyphens are removed before the
\* separators are collapsed.
slugifyStripFirst(str) ==
    IF ~IsString(str) THEN Throw
    ELSE Return(Str(CollapseSeparators(StripHyphens(
                        RemoveSpecial(trim(toLowerCase(str.s)))))))

\* str.toLowerCase().trim().replace(/[^\w\s-]/g, '')
\*    .replace(/[\s_-]+/g, '-').replace(/^-+|-+$/g, '');
\* null and undefined have no toLowerCase: a TypeError.
slugify(str) ==
    IF ~IsString(str) THEN Throw
    ELSE Return(Str(StripHyphens(CollapseSeparators(
                        RemoveSpecial(trim(toLowerCase(str.s)))))))

Min(a, b) == IF a < b THEN a ELSE b
Max(a, b) == IF a > b THEN a ELSE b

\* String.prototype.substring(start, end): both indexes are clamped to
\* 0..length and swapped when start is the larger one.
substring(s, start, end) ==
    LET a == Min(Max(start, 0), Len(s))
        b == Min(Max(end, 0), Len(s))
    IN SubSeq(s, Min(a, b) + 1, Max(a, b))

\* Variant: the suffix is not counted in the length kept.
truncateKeepLength(str, length, suffix) ==
    IF ~Truthy(str) \/ Len(str.s) <= length THEN Return(str)
    ELSE Return(Str(substring(str.s, 0, length) \o suffix))

\* if (!str || str.length <= length) return str;
\* return str.substring(0, length - suffix.length) + suffix
truncate(str, length, suffix) ==
    IF ~Truthy(str) \/ Len(str.s) <= length THEN Return(str)
    ELSE Return(Str(substring(str.s, 0, length - Len(suffix)) \o suffix))

\* return str && str.trim().length > 0
isNotEmpty(str) ==
    IF ~Truthy(str) THEN Return(str) ELSE Return(Bool(Len(trim(str.s)) > 0))

\* Largest `length` handed to truncate.
MaxTruncate == 3
Suffixes == {<<>>, <<".">>, <<".", ".", ".">>}

\* Longest string handed to the string helpers.
MaxStrLen == 4

TextChars == {"a", "A", " ", "-", "_", "!"}
TextStrings == UNION {[1..k -> TextChars] : k \in 0..MaxStrLen}
TextInputs == {Null, Undefined} \cup {Str(s) : s \in TextStrings}

StringsInit ==
    /\ TimerInit
    /\ UiIdle
    /\ pc = "ready"
    /\ tIn \in TextInputs
    /\ tOut = <<>>
    /\ FilterIdle
    /\ SortIdle

CapitalizeCall ==
    /\ pc = "ready"
    /\ tOut' = [fn |-> "capitalize", res |-> capitalize(tIn)]
    /\ pc' = "done"
    /\ UNCHANGED <<timerVars, uiVars, filterVars, sortVars, tIn>>

\* slugify(str), and slugify on what it returned
SlugifyCall ==
    /\ pc = "ready"
    /\ LET res == slugify(tIn)
       IN tOut' = [fn |-> "slugify", res |-> res,
                   again |-> IF res.threw THEN res ELSE slugify(res.v)]
    /\ pc' = "done"
    /\ UNCHANGED <<timerVars, uiVars, filterVars, sortVars, tIn>>

TruncateCall(length, suffix) ==
    /\ pc = "ready"
    /\ tOut' = [fn |-> "truncate", length |-> length, suffix |-> suffix,
                res |-> truncate(tIn, length, suffix)]
    /\ pc' = "done"
    /\ UNCHANGED <<timerVars, uiVars, filterVars, sortVars, tIn>>

IsNotEmptyCall ==
    /\ pc = "ready"
    /\ tOut' = [fn |-> "isNotEmpty", res |-> isNotEmpty(tIn)]
    /\ pc' = "done"
    /\ UNCHANGED <<timerVars, uiVars, filterVars, sortVars, tIn>>

StringsNext ==
    \/ CapitalizeCall
    \/ SlugifyCall
    \/ \E length \in 0..MaxTruncate, suffix \in Suffixes : TruncateCall(length, suffix)
    \/ IsNotEmptyCall

SpecStrings == StringsInit /\ [][StringsNext]_vars

\* ------------------------------------------------------------------- timeAgo
\* The table `intervals`, in the order Object.entries walks it.
Intervals ==
    << [unit |-> "year", secondsInUnit |-> 31536000],
       [unit |-> "month", secondsInUnit |-> 2592000],
       [unit |-> "week", secondsInUnit |-> 604800],
       [unit |-> "day", secondsInUnit |-> 86400],
       [unit |-> "hour", secondsInUnit |-> 3600],
       [unit |-> "minute", secondsInUnit |-> 60] >>

\* `${interval} ${unit}${interval > 1 ? 's' : ''} ago` and 'Just now'
Ago(interval, unit, s) == [text |-> "ago", n |-> interval, unit |-> unit, s |-> s]
JustNow == [text |-> "Just now", n |-> 0, unit |-> "", s |-> ""]

\* Variant: any count that is not zero is taken (`if (interval)`).
HasCountTruthy(interval) == interval # 0

\* if (interval >= 1)
HasCount(interval) == interval >= 1

\* Variant: the plural from one on.
PluralFromOne(interval) == interval >= 1

\* interval > 1 ? 's' : ''
Plural(interval) == interval > 1

RECURSIVE TimeAgoFrom(_, _)
\* The loop over the intervals from the i-th on; Math.floor is \div, which
\* rounds down for negative numbers as well.
TimeAgoFrom(seconds, i) ==
    IF i > Len(Intervals) THEN JustNow
    ELSE LET interval == seconds \div Intervals[i].secondsInUnit
         IN IF HasCount(interval)
            THEN Ago(interval, Intervals[i].unit, IF Plural(interval) THEN "s" ELSE "")
            ELSE TimeAgoFrom(seconds, i + 1)

\* timeAgo(dateString), with now - date = elapsed.sec * 1000 + elapsed.ms
\* milliseconds and 0 <= elapsed.ms < 1000, so that
\* Math.floor((now - date) / 1000) is elapsed.sec.
timeAgo(elapsed) == TimeAgoFrom(elapsed.sec, 1)

\* Largest multiple of a unit among the elapsed times.
MaxCount == 2

UnitSeconds == {1} \cup {Intervals[i].secondsInUnit : i \in 1..Len(Intervals)}
PastSeconds == {k * u + d : k \in 0..MaxCount, u \in UnitSeconds, d \in {-1, 0, 1}}
                  \cup {3661}
ElapsedSeconds == PastSeconds \cup {-e : e \in PastSeconds}
Elapsed == [sec : ElapsedSeconds, ms : {0, 500}]

TimeAgoInit ==
    /\ TimerInit
    /\ UiIdle
    /\ pc = "ready"
    /\ tIn \in Elapsed
    /\ tOut = <<>>
    /\ FilterIdle
    /\ SortIdle

TimeAgoCall ==
    /\ pc = "ready"
    /\ tOut' = [fn |-> "timeAgo", res |-> timeAgo(tIn)]
    /\ pc' = "done"
    /\ UNCHANGED <<timerVars, uiVars, filterVars, sortVars, tIn>>

TimeAgoNext == TimeAgoCall

SpecTimeAgo == TimeAgoInit /\ [][TimeAgoNext]_vars

\* -------------------------------------------------------------- isValidEmail
\* [^\s@]
IsAddressChar(ch) == ~IsSpace(ch) /\ ch # "@"

\* /^[^\s@]+@[^\s@]+\.[^\s@]+$/ as an automaton. Its positions: 0 at ^,
\* 1 inside the first [^\s@]+, 2 after @, 3 inside the second [^\s@]+,
\* 4 after \., 5 inside the third [^\s@]+, where $ may match.
EmailStep(q, ch) ==
    CASE q = 0 -> IF IsAddressChar(ch) THEN {1} ELSE {}
      [] q = 1 -> IF IsAddressChar(ch) THEN {1} ELSE IF ch = "@" THEN {2} ELSE {}
      [] q = 2 -> IF IsAddressChar(ch) THEN {3} ELSE {}
      [] q = 3 -> IF ch = "." THEN {3, 4} ELSE IF IsAddressChar(ch) THEN {3} ELSE {}
      [] q = 4 -> IF IsAddressChar(ch) THEN {5} ELSE {}
      [] q = 5 -> IF IsAddressChar(ch) THEN {5} ELSE {}

RECURSIVE EmailRun(_, _)
\* The positions the expression can be at after reading s from positions Q.
EmailRun(Q, s) ==
    IF s = <<>> THEN Q
    ELSE EmailRun(UNION {EmailStep(q, Head(s)) : q \in Q}, Tail(s))

\* Variant: the expression without ^ and $, which matches inside the string.
isValidEmailUnanchored(email) ==
    \E i, j \in 1..Len(email) : i <= j /\ 5 \in EmailRun({0}, SubSeq(email, i, j))

\* emailRegex.test(email)
isValidEmail(email) == 5 \in EmailRun({0}, email)

\* Longest string handed to isValidEmail.
MaxEmailLen == 6

EmailChars == {"a", "@", ".", " "}
EmailStrings == UNION {[1..k -> EmailChars] : k \in 0..MaxEmailLen}

EmailInit ==
    /\ TimerInit
    /\ UiIdle
    /\ pc = "ready"
    /\ tIn \in {Str(e) : e \in EmailStrings}
    /\ tOut = <<>>
    /\ FilterIdle
    /\ SortIdle

IsValidEmailCall ==
    /\ pc = "ready"
    /\ tOut' = [fn |-> "isValidEmail", res |-> Return(Bool(isValidEmail(tIn.s)))]
    /\ pc' = "done"
    /\ UNCHANGED <<timerVars, uiVars, filterVars, sortVars, tIn>>

EmailNext == IsValidEmailCall

SpecEmail == EmailInit /\ [][EmailNext]_vars

\* ----------------------------------------------------------- Components view
\* created() builds this.debouncedSearch = debounce(value => { this.searchQuery
\* = value }, 300); no template binding and no method of the view invokes it,
\* so it has no action here. The search field is bound with
\* v-model="searchQuery".

\* Longest value of the search field.
MaxQueryLen == 2

\* Input events of the search field in one run.
MaxKeys == 3

QueryChars == {"a", "B"}
SearchValues == {Str(q) : q \in UNION {[1..k -> QueryChars] : k \in 0..MaxQueryLen}}

\* <option> values of the two selects; '' is "all".
TypeOptions == {Str(<<>>), Str(<<"c">>), Str(<<"f">>)}
StatusOptions == {Str(<<>>), Str(<<"p">>), Str(<<"d">>)}

Component(name, description, author, type, status) ==
    [name |-> Str(name), description |-> Str(description), author |-> Str(author),
     type |-> Str(type), status |-> Str(status)]

\* response.data of apiService.components.getAll()
ApiComponents ==
    <<Component(<<"a", "b">>, <<"x">>, <<"y">>, <<"c">>, <<"p">>),
      Component(<<"x">>, <<"B", "a">>, <<"y">>, <<"f">>, <<"p">>),
      Component(<<"x">>, <<"x">>, <<"b">>, <<"c">>, <<"d">>)>>

\* computed filteredComponents
filteredComponents ==
    LET bySearch == IF Truthy(searchQuery)
                    THEN filterBySearch(components, searchQuery,
                                        <<"name", "description", "author">>)
                    ELSE components
        byType == IF Truthy(filterType)
                  THEN SelectSeq(bySearch, LAMBDA c : c.type = filterType)
                  ELSE bySearch
    IN IF Truthy(filterStatus)
       THEN SelectSeq(byType, LAMBDA c : c.status = filterStatus)
       ELSE byType

\* data() followed by mounted(): fetchComponents has set loading and awaits
\* getAll().
ViewInit ==
    /\ components = <<>>
    /\ vLoading = TRUE
    /\ searchQuery = Str(<<>>)
    /\ filterType = Str(<<>>)
    /\ filterStatus = Str(<<>>)
    /\ keystrokes = 0

\* fetchComponents: getAll() resolved.
FetchComponentsResolved ==
    /\ vLoading
    /\ components' = ApiComponents
    /\ vLoading' = FALSE
    /\ UNCHANGED <<timerVars, helperVars, listVars, pageVars, parentVars, formVars, searchQuery, filterType, filterStatus, keystrokes>>

\* fetchComponents: getAll() rejected.
FetchComponentsRejected ==
    /\ vLoading
    /\ vLoading' = FALSE
    /\ UNCHANGED <<timerVars, helperVars, listVars, pageVars, parentVars, formVars, components, searchQuery, filterType,
                   filterStatus, keystrokes>>

\* An input event of the search field: v-model assigns the field's value.
SearchInput(value) ==
    /\ keystrokes < MaxKeys
    /\ value # searchQuery
    /\ searchQuery' = value
    /\ keystrokes' = keystrokes + 1
    /\ UNCHANGED <<timerVars, helperVars, listVars, pageVars, parentVars, formVars, components, vLoading, filterType, filterStatus>>

\* A change event of the type select.
SelectType(value) ==
    /\ value # filterType
    /\ filterType' = value
    /\ UNCHANGED <<timerVars, helperVars, listVars, pageVars, parentVars, formVars, components, vLoading, searchQuery,
                   filterStatus, keystrokes>>

\* A change event of the status select.
SelectStatus(value) ==
    /\ value # filterStatus
    /\ filterStatus' = value
    /\ UNCHANGED <<timerVars, helperVars, listVars, pageVars, parentVars, formVars, components, vLoading, searchQuery,
                   filterType, keystrokes>>

\* hasActiveFilters, which shows the Clear Filters button
hasActiveFilters == Truthy(searchQuery) \/ Truthy(filterType) \/ Truthy(filterStatus)

clearFilters ==
    /\ hasActiveFilters
    /\ searchQuery' = Str(<<>>)
    /\ filterType' = Str(<<>>)
    /\ filterStatus' = Str(<<>>)
    /\ UNCHANGED <<timerVars, helperVars, listVars, pageVars, parentVars, formVars, components, vLoading, keystrokes>>

SearchInit == TimerInit /\ HelperIdle /\ ViewInit /\ FormIdle /\ ListIdle /\ PageIdle

SearchNext ==
    \/ FetchComponentsResolved
    \/ FetchComponentsRejected
    \/ \E value \in SearchValues : SearchInput(value)
    \/ \E value \in TypeOptions : SelectType(value)
    \/ \E value \in StatusOptions : SelectStatus(value)
    \/ clearFilters

SpecSearch == SearchInit /\ [][SearchNext]_vars

\* --------------------------------------------------------------------- AemForm
\* 'submit' events and handleSubmit invocations in one run.
MaxSubmits == 2

\* AemForm instances mounted in one run.
MaxOpens == 2

Success == "Form submitted successfully!"
PleaseFix == "Please fix the errors above"
SaveFailed == "Failed to save component. Please try again."

\* A field configuration of the prop `fields`. minLength and maxLength 0 stand
\* for an absent (falsy) entry; rejects is the set of values for which the
\* field's validate function returns an error message.
Field(name, required, validation, minLength, maxLength, hasValidate, rejects) ==
    [name |-> name, required |-> required, validation |-> validation,
     minLength |-> minLength, maxLength |-> maxLength,
     hasValidate |-> hasValidate, rejects |-> rejects]

\* formFields of the Components view, reduced to its two kinds of field.
ComponentFields ==
    <<Field("name", TRUE, "", 3, 0, FALSE, {}),
      Field("author", TRUE, "", 0, 0, FALSE, {})>>

\* A form using the three remaining validations of validateField.
ContactFields ==
    <<Field("email", TRUE, "email", 0, 0, FALSE, {}),
      Field("note", FALSE, "", 0, 2, TRUE, {Str(<<"a">>)})>>

FormConfigs == {ComponentFields, ContactFields}

\* Values typed into a field.
FormValues ==
    {Str(<<>>), Str(<<" ">>), Str(<<"a">>), Str(<<"a", "@", "a", ".", "a">>)}

FieldNames(fs) == {fs[k].name : k \in 1..Len(fs)}

\* initializeFormData with initialValues {} and no field default
initializeFormData(fs) == [n \in FieldNames(fs) |-> Str(<<>>)]

\* computed isValid
isValid ==
    /\ \A n \in DOMAIN errors : errors[n] = ""
    /\ \A k \in 1..Len(fields) :
           fields[k].required => formData[fields[k].name] # Str(<<>>)

\* validateField: the error it computes for `field` holding `value`.
FieldError(field, value) ==
    IF field.required /\ ~Truthy(isNotEmpty(value).v) THEN "is required"
    ELSE IF field.validation = "email" /\ Truthy(value) /\ ~isValidEmail(value.s)
    THEN "Please enter a valid email address"
    ELSE IF field.minLength > 0 /\ Truthy(value) /\ Len(value.s) < field.minLength
    THEN "must be at least minLength characters"
    ELSE IF field.maxLength > 0 /\ Truthy(value) /\ Len(value.s) > field.maxLength
    THEN "must be no more than maxLength characters"
    ELSE IF field.hasValidate
    THEN (IF value \in field.rejects THEN "custom" ELSE "")
    ELSE ""

\* this.errors = { ...this.errors, [field.name]: error }
SetError(errs, name, error) ==
    [n \in DOMAIN errs \cup {name} |-> IF n = name THEN error ELSE errs[n]]

\* validateField: the new errors object and the value returned.
validateField(field, data, errs) ==
    LET error == FieldError(field, data[field.name])
    IN [errors |-> SetError(errs, field.name, error), ok |-> error = ""]

RECURSIVE ValidateFrom(_, _, _, _, _)
\* validateAll: the forEach from field k on, isValid so far being ok.
ValidateFrom(k, fs, data, errs, ok) ==
    IF k > Len(fs) THEN [errors |-> errs, ok |-> ok]
    ELSE LET r == validateField(fs[k], data, errs)
         IN ValidateFrom(k + 1, fs, data, r.errors, ok /\ r.ok)

\* Variant: isValid is overwritten by each field, so the last field decides.
validateAllLastField(fs, data, errs) ==
    LET r == ValidateFrom(1, fs, data, errs, TRUE)
    IN [errors |-> r.errors, ok |-> r.errors[fs[Len(fs)].name] = ""]

validateAll(fs, data, errs) == ValidateFrom(1, fs, data, errs, TRUE)

\* The Components view after mounted() and an empty getAll() response; the
\* form is closed.
FormInit ==
    /\ TimerInit
    /\ HelperIdle
    /\ components = <<>>
    /\ vLoading = FALSE
    /\ searchQuery = Str(<<>>)
    /\ filterType = Str(<<>>)
    /\ filterStatus = Str(<<>>)
    /\ keystrokes = 0
    /\ showCreateForm = FALSE
    /\ handlers = <<>>
    /\ fields \in FormConfigs
    /\ FormUnmounted
    /\ instance = 0
    /\ submitCalls = 0
    /\ emitted = <<>>
    /\ ListIdle
    /\ PageIdle

\* The v-if of AemForm turns false: the instance and its data are gone.
Unmount ==
    /\ formData' = <<>>
    /\ errors' = <<>>
    /\ fLoading' = FALSE
    /\ successMessage' = ""
    /\ errorMessage' = ""
    /\ fpc' = "none"

\* @click="showCreateForm = true"; AemForm is created and created() runs
\* initializeFormData.
OpenCreateForm ==
    /\ ~showCreateForm
    /\ instance < MaxOpens
    /\ showCreateForm' = TRUE
    /\ instance' = instance + 1
    /\ formData' = initializeFormData(fields)
    /\ errors' = <<>>
    /\ fLoading' = FALSE
    /\ successMessage' = ""
    /\ errorMessage' = ""
    /\ fpc' = "idle"
    /\ UNCHANGED <<timerVars, helperVars, listVars, pageVars, viewVars, handlers, fields, submitCalls, emitted>>

\* An input event of a field: v-model assigns formData[field.name].
FieldInput(k, value) ==
    /\ fpc = "idle"
    /\ ~fLoading
    /\ value # formData[fields[k].name]
    /\ formData' = [formData EXCEPT ![fields[k].name] = value]
    /\ UNCHANGED <<timerVars, helperVars, listVars, pageVars, viewVars, parentVars, fields, errors, fLoading,
                   successMessage, errorMessage, fpc, instance, submitCalls, emitted>>

\* @blur / @change of a field: validateField(field).
FieldBlur(k) ==
    /\ fpc = "idle"
    /\ ~fLoading
    /\ errors' = validateField(fields[k], formData, errors).errors
    /\ UNCHANGED <<timerVars, helperVars, listVars, pageVars, viewVars, parentVars, fields, formData, fLoading,
                   successMessage, errorMessage, fpc, instance, submitCalls, emitted>>

\* handleSubmit up to its await. The submit button is disabled while
\* loading || !isValid, which also blocks implicit submission. $emit calls
\* the parent's handleFormSubmit, which runs up to its own await of
\* apiService.components.create and returns a promise; $emit returns
\* undefined.
HandleSubmit ==
    /\ fpc = "idle"
    /\ ~fLoading
    /\ isValid
    /\ submitCalls < MaxSubmits
    /\ submitCalls' = submitCalls + 1
    /\ successMessage' = ""
    /\ LET r == validateAll(fields, formData, errors)
       IN /\ errors' = r.errors
          /\ IF ~r.ok
             THEN /\ errorMessage' = PleaseFix
                  /\ UNCHANGED <<fLoading, fpc, emitted, handlers>>
             ELSE /\ errorMessage' = ""
                  /\ fLoading' = TRUE
                  /\ emitted' = Append(emitted, [data |-> formData, instance |-> instance])
                  /\ handlers' = Append(handlers, "pending")
                  /\ fpc' = "awaiting"
    /\ UNCHANGED <<timerVars, helperVars, listVars, pageVars, viewVars, showCreateForm, fields, formData, instance>>

\* handleSubmit after `await this.$emit(...)`: awaiting undefined resumes in
\* the next microtask, before any other event. The async listener never
\* throws into $emit, so the catch block is not entered.
HandleSubmitResume ==
    /\ fpc = "awaiting"
    /\ successMessage' = Success
    /\ fLoading' = FALSE
    /\ fpc' = "idle"
    /\ UNCHANGED <<timerVars, helperVars, listVars, pageVars, viewVars, parentVars, fields, formData, errors,
                   errorMessage, instance, submitCalls, emitted>>

\* handleCancel: resetForm, then $emit('cancel'), on which the parent runs
\* closeForm.
handleCancel ==
    /\ fpc = "idle"
    /\ ~fLoading
    /\ showCreateForm' = FALSE
    /\ Unmount
    /\ UNCHANGED <<timerVars, helperVars, listVars, pageVars, viewVars, handlers, fields, instance, submitCalls,
                   emitted>>

\* closeForm by a click on the modal overlay.
closeForm ==
    /\ showCreateForm
    /\ fpc # "awaiting"
    /\ showCreateForm' = FALSE
    /\ Unmount
    /\ UNCHANGED <<timerVars, helperVars, listVars, pageVars, viewVars, handlers, fields, instance, submitCalls,
                   emitted>>

\* handleFormSubmit after apiService.components.create resolved (no component
\* is being edited): push response.data, closeForm.
HandleFormSubmitResolved(i) ==
    /\ fpc # "awaiting"
    /\ handlers[i] = "pending"
    /\ handlers' = [handlers EXCEPT ![i] = "done"]
    /\ components' = Append(components, [id |-> i, data |-> emitted[i].data])
    /\ showCreateForm' = FALSE
    /\ Unmount
    /\ UNCHANGED <<timerVars, helperVars, listVars, pageVars, vLoading, searchQuery, filterType, filterStatus,
                   keystrokes, fields, instance, submitCalls, emitted>>

\* handleFormSubmit after apiService.components.create rejected: the catch
\* block throws Error(SaveFailed), which rejects the promise nobody awaits.
HandleFormSubmitRejected(i) ==
    /\ fpc # "awaiting"
    /\ handlers[i] = "pending"
    /\ handlers' = [handlers EXCEPT ![i] = "threw"]
    /\ UNCHANGED <<timerVars, helperVars, listVars, pageVars, viewVars, showCreateForm, formVars>>

FormNext ==
    \/ OpenCreateForm
    \/ \E k \in 1..Len(fields), value \in FormValues : FieldInput(k, value)
    \/ \E k \in 1..Len(fields) : FieldBlur(k)
    \/ HandleSubmit
    \/ HandleSubmitResume
    \/ handleCancel
    \/ closeForm
    \/ \E i \in 1..Len(handlers) : HandleFormSubmitResolved(i)
    \/ \E i \in 1..Len(handlers) : HandleFormSubmitRejected(i)

SpecForm == FormInit /\ [][FormNext]_vars

\* ------------------------------------------------------ Components view: list
\* In this part the AemForm in the modal is its 'submit' and 'cancel' events.

\* API calls of handleFormSubmit and deleteComponent in one run.
MaxRequests == 2

\* confirm() dialogs answered with Cancel in one run.
MaxDeclines == 1

\* Payloads of the 'submit' event.
Payloads == {"p", "q"}

\* An entry of components; data stands for the fields the form edits.
Entry(id, data, createdAt) == [id |-> id, data |-> data, createdAt |-> createdAt]

\* response.data of getAll(), already in components.
LoadedComponents == <<Entry(1, "x", 1), Entry(2, "y", 2)>>

\* The id the server gives to the component of create request r.
NewId(r) == Len(LoadedComponents) + r

\* this.components.findIndex(c => c.id === id), 0 for -1
FindIndex(list, id) ==
    IF \E k \in 1..Len(list) : list[k].id = id
    THEN CHOOSE k \in 1..Len(list) :
             list[k].id = id /\ \A j \in 1..(k - 1) : list[j].id # id
    ELSE 0

\* Variant: c => c.id === id, which keeps the entries to delete.
KeepById(list, id) == SelectSeq(list, LAMBDA c : c.id = id)

\* this.components.filter(c => c.id !== id)
RemoveById(list, id) == SelectSeq(list, LAMBDA c : c.id # id)

\* response.data of a resolved update or create request.
ResponseData(r) ==
    IF requests[r].kind = "update"
    THEN Entry(requests[r].id, requests[r].body.data, requests[r].body.createdAt)
    ELSE Entry(NewId(r), requests[r].body.data, requests[r].body.createdAt)

\* What the list actions leave alone.
listFrame ==
    <<timerVars, helperVars, formVars, pageVars, handlers, vLoading, searchQuery,
      filterType, filterStatus, keystrokes>>

\* The view after mounted() and a resolved getAll(); the modal is closed.
ListInit ==
    /\ TimerInit
    /\ HelperIdle
    /\ components = LoadedComponents
    /\ vLoading = FALSE
    /\ searchQuery = Str(<<>>)
    /\ filterType = Str(<<>>)
    /\ filterStatus = Str(<<>>)
    /\ keystrokes = 0
    /\ FormIdle
    /\ editingComponent = Null
    /\ requests = <<>>
    /\ declined = 0
    /\ PageIdle

\* @click="showCreateForm = true". The modal overlay covers the page, so the
\* buttons of the page are reachable only while the modal is closed.
ShowCreateForm ==
    /\ ~showCreateForm
    /\ showCreateForm' = TRUE
    /\ UNCHANGED <<listFrame, components, editingComponent, requests, declined>>

editComponent(k) ==
    /\ ~showCreateForm
    /\ editingComponent' = components[k]
    /\ showCreateForm' = TRUE
    /\ UNCHANGED <<listFrame, components, requests, declined>>

\* closeForm, by the form's 'cancel' event or a click on the overlay.
CloseModal ==
    /\ showCreateForm
    /\ showCreateForm' = FALSE
    /\ editingComponent' = Null
    /\ UNCHANGED <<listFrame, components, requests, declined>>

\* handleFormSubmit up to its await: the arguments of update / create are
\* evaluated and the request is sent.
handleFormSubmit(payload) ==
    /\ showCreateForm
    /\ Len(requests) < MaxRequests
    /\ requests' = Append(requests,
           IF editingComponent # Null
           THEN [kind |-> "update", id |-> editingComponent.id,
                 body |-> [data |-> payload, createdAt |-> editingComponent.createdAt],
                 api |-> "pending", handler |-> "running"]
           ELSE [kind |-> "create", id |-> 0,
                 body |-> [data |-> payload, createdAt |-> 0],
                 api |-> "pending", handler |-> "running"])
    /\ UNCHANGED <<listFrame, components, showCreateForm, editingComponent, declined>>

\* handleFormSubmit after update() resolved. this.editingComponent is read
\* again here: when it is null and components is not empty, the findIndex
\* callback raises a TypeError, which the catch block turns into
\* Error(SaveFailed).
UpdateResolved(r) ==
    /\ requests[r].kind = "update"
    /\ requests[r].api = "pending"
    /\ IF editingComponent = Null /\ components # <<>>
       THEN /\ requests' = [requests EXCEPT ![r].api = "ok", ![r].handler = "threw"]
            /\ UNCHANGED <<components, showCreateForm, editingComponent>>
       ELSE /\ requests' = [requests EXCEPT ![r].api = "ok", ![r].handler = "done"]
            /\ LET index == IF editingComponent = Null THEN 0
                            ELSE FindIndex(components, editingComponent.id)
               IN components' = IF index # 0
                                THEN [components EXCEPT ![index] = ResponseData(r)]
                                ELSE components
            /\ showCreateForm' = FALSE
            /\ editingComponent' = Null
    /\ UNCHANGED <<listFrame, declined>>

\* handleFormSubmit after create() resolved.
CreateResolved(r) ==
    /\ requests[r].kind = "create"
    /\ requests[r].api = "pending"
    /\ requests' = [requests EXCEPT ![r].api = "ok", ![r].handler = "done"]
    /\ components' = Append(components, ResponseData(r))
    /\ showCreateForm' = FALSE
    /\ editingComponent' = Null
    /\ UNCHANGED <<listFrame, declined>>

\* handleFormSubmit after update() or create() rejected.
SaveRejected(r) ==
    /\ requests[r].kind \in {"update", "create"}
    /\ requests[r].api = "pending"
    /\ requests' = [requests EXCEPT ![r].api = "failed", ![r].handler = "threw"]
    /\ UNCHANGED <<listFrame, components, showCreateForm, editingComponent, declined>>

\* deleteComponent, confirm() answered with Cancel.
DeleteDeclined(k) ==
    /\ ~showCreateForm
    /\ declined < MaxDeclines
    /\ declined' = declined + 1
    /\ UNCHANGED <<listFrame, components, showCreateForm, editingComponent, requests>>

\* deleteComponent, confirm() answered with OK, up to its await.
deleteComponent(k) ==
    /\ ~showCreateForm
    /\ Len(requests) < MaxRequests
    /\ requests' = Append(requests,
           [kind |-> "delete", id |-> components[k].id,
            body |-> [data |-> "", createdAt |-> 0],
            api |-> "pending", handler |-> "running"])
    /\ UNCHANGED <<listFrame, components, showCreateForm, editingComponent, declined>>

\* deleteComponent after delete() resolved.
DeleteResolved(r) ==
    /\ requests[r].kind = "delete"
    /\ requests[r].api = "pending"
    /\ requests' = [requests EXCEPT ![r].api = "ok", ![r].handler = "done"]
    /\ components' = RemoveById(components, requests[r].id)
    /\ UNCHANGED <<listFrame, showCreateForm, editingComponent, declined>>

\* deleteComponent after delete() rejected: the catch block alerts.
DeleteRejected(r) ==
    /\ requests[r].kind = "delete"
    /\ requests[r].api = "pending"
    /\ requests' = [requests EXCEPT ![r].api = "failed", ![r].handler = "done"]
    /\ UNCHANGED <<listFrame, components, showCreateForm, editingComponent, declined>>

ListNext ==
    \/ ShowCreateForm
    \/ \E k \in 1..Len(components) : editComponent(k)
    \/ CloseModal
    \/ \E payload \in Payloads : handleFormSubmit(payload)
    \/ \E r \in 1..Len(requests) : UpdateResolved(r)
    \/ \E r \in 1..Len(requests) : CreateResolved(r)
    \/ \E r \in 1..Len(requests) : SaveRejected(r)
    \/ \E k \in 1..Len(components) : DeleteDeclined(k)
    \/ \E k \in 1..Len(components) : deleteComponent(k)
    \/ \E r \in 1..Len(requests) : DeleteResolved(r)
    \/ \E r \in 1..Len(requests) : DeleteRejected(r)

SpecList == ListInit /\ [][ListNext]_vars

\* ------------------------------------------------------------ ComponentDetail
\* getById / statistics.get calls of one view in one run.
MaxFetches == 3

\* Route ids.
DetailIds == {1, 2, 3}

\* response.data of getById(id)
Detail(id) == [id |-> id]

CouldNotFind == Str(<<"Could not find the requested component.">>)

\* fetchComponent(id) up to its await.
FetchComponentStart(id) ==
    /\ detailLoading' = TRUE
    /\ detailError' = Null
    /\ detailRequests' = Append(detailRequests, [id |-> id, status |-> "pending"])

\* The view is created with a route id; the immediate watcher has called
\* fetchComponent(id).
DetailInit ==
    /\ TimerInit
    /\ HelperIdle
    /\ ViewIdle
    /\ FormIdle
    /\ ListIdle
    /\ DashIdle
    /\ detailId \in DetailIds
    /\ detailComponent = Null
    /\ detailLoading = TRUE
    /\ detailError = Null
    /\ detailRequests = <<[id |-> detailId, status |-> "pending"]>>

\* The route changes to another component: the prop changes and the watcher
\* calls fetchComponent(newId).
WatchId(newId) ==
    /\ newId # detailId
    /\ Len(detailRequests) < MaxFetches
    /\ detailId' = newId
    /\ FetchComponentStart(newId)
    /\ UNCHANGED <<timerVars, helperVars, viewVars, parentVars, formVars, listVars, dashVars,
                   detailComponent>>

\* fetchComponent after getById resolved.
FetchComponentResolved(r) ==
    /\ detailRequests[r].status = "pending"
    /\ detailRequests' = [detailRequests EXCEPT ![r].status = "ok"]
    /\ detailComponent' = Detail(detailRequests[r].id)
    /\ detailLoading' = FALSE
    /\ UNCHANGED <<timerVars, helperVars, viewVars, parentVars, formVars, listVars, dashVars,
                   detailId, detailError>>

\* fetchComponent after getById rejected.
FetchComponentRejected(r) ==
    /\ detailRequests[r].status = "pending"
    /\ detailRequests' = [detailRequests EXCEPT ![r].status = "failed"]
    /\ detailError' = CouldNotFind
    /\ detailLoading' = FALSE
    /\ UNCHANGED <<timerVars, helperVars, viewVars, parentVars, formVars, listVars, dashVars,
                   detailId, detailComponent>>

DetailNext ==
    \/ \E newId \in DetailIds : WatchId(newId)
    \/ \E r \in 1..Len(detailRequests) : FetchComponentResolved(r)
    \/ \E r \in 1..Len(detailRequests) : FetchComponentRejected(r)

SpecDetail == DetailInit /\ [][DetailNext]_vars

\* ------------------------------------------------------------------ Dashboard
LoadFailed == Str(<<"Failed to load statistics. Make sure json-server is running.">>)

\* response.data of components.getAll(), as ids
AllComponents == <<1, 2, 3, 4>>

\* The statistics.get calls that have settled.
Settled == {r \in 1..Len(statsRequests) : statsRequests[r].status # "pending"}

\* fetchStatistics up to its await; by is the control that called it.
FetchStatisticsStart(by) ==
    /\ Len(statsRequests) < MaxFetches
    /\ dashLoading' = TRUE
    /\ dashError' = Null
    /\ statsRequests' = Append(statsRequests, [by |-> by, status |-> "pending", order |-> 0])
    /\ UNCHANGED <<timerVars, helperVars, viewVars, parentVars, formVars, listVars,
                   detailVars, statistics, recentComponents, componentsLoading,
                   recentRequest>>

\* The view after mounted(): fetchStatistics and fetchRecentComponents have
\* run up to their awaits.
DashInit ==
    /\ TimerInit
    /\ HelperIdle
    /\ ViewIdle
    /\ FormIdle
    /\ ListIdle
    /\ DetailIdle
    /\ statistics = 0
    /\ dashLoading = TRUE
    /\ dashError = Null
    /\ statsRequests = <<[by |-> "mounted", status |-> "pending", order |-> 0]>>
    /\ recentComponents = <<>>
    /\ componentsLoading = TRUE
    /\ recentRequest = "pending"

\* The Refresh button, :disabled="loading".
Refresh == ~dashLoading /\ FetchStatisticsStart("Refresh")

\* The Try Again button, rendered by v-else-if="error" after v-if="loading".
TryAgain == ~dashLoading /\ Truthy(dashError) /\ FetchStatisticsStart("Try Again")

\* The Sync Data quick action, which is always enabled.
SyncData == FetchStatisticsStart("Sync Data")

\* fetchStatistics after statistics.get() resolved.
FetchStatisticsResolved(r) ==
    /\ statsRequests[r].status = "pending"
    /\ statsRequests' = [statsRequests EXCEPT ![r].status = "ok",
                                              ![r].order = Cardinality(Settled) + 1]
    /\ statistics' = r
    /\ dashLoading' = FALSE
    /\ UNCHANGED <<timerVars, helperVars, viewVars, parentVars, formVars, listVars,
                   detailVars, dashError, recentComponents, componentsLoading,
                   recentRequest>>

\* fetchStatistics after statistics.get() rejected.
FetchStatisticsRejected(r) ==
    /\ statsRequests[r].status = "pending"
    /\ statsRequests' = [statsRequests EXCEPT ![r].status = "failed",
                                              ![r].order = Cardinality(Settled) + 1]
    /\ dashError' = LoadFailed
    /\ dashLoading' = FALSE
    /\ UNCHANGED <<timerVars, helperVars, viewVars, parentVars, formVars, listVars,
                   detailVars, statistics, recentComponents, componentsLoading,
                   recentRequest>>

\* fetchRecentComponents after getAll() resolved.
FetchRecentResolved ==
    /\ recentRequest = "pending"
    /\ recentRequest' = "ok"
    /\ recentComponents' = SubSeq(AllComponents, 1, Min(3, Len(AllComponents)))
    /\ componentsLoading' = FALSE
    /\ UNCHANGED <<timerVars, helperVars, viewVars, parentVars, formVars, listVars,
                   detailVars, statistics, dashLoading, dashError, statsRequests>>

\* fetchRecentComponents after getAll() rejected.
FetchRecentRejected ==
    /\ recentRequest = "pending"
    /\ recentRequest' = "failed"
    /\ componentsLoading' = FALSE
    /\ UNCHANGED <<timerVars, helperVars, viewVars, parentVars, formVars, listVars,
                   detailVars, statistics, dashLoading, dashError, statsRequests,
                   recentComponents>>

DashNext ==
    \/ Refresh
    \/ TryAgain
    \/ SyncData
    \/ \E r \in 1..Len(statsRequests) : FetchStatisticsResolved(r)
    \/ \E r \in 1..Len(statsRequests) : FetchStatisticsRejected(r)
    \/ FetchRecentResolved
    \/ FetchRecentRejected

SpecDashboard == DashInit /\ [][DashNext]_vars

\* ------------------------------------------------------- debounce, throttle

Last(s) == s[Len(s)]

\* The invocations i..j of c form a burst: each arrives less than Wait after
\* the one before.
Burst(c, i, j) == \A k \in i..(j - 1) : c[k + 1].t - c[k].t < Wait

\* C1: debounce: for a burst of invocations of one debounced wrapper, each
\* less than wait after the previous one and none following the last, fn is
\* executed exactly once, with the arguments of the last invocation, and not
\* before wait has elapsed since that invocation: nothing of the burst has
\* been executed while its scheduled call is pending, and exactly the last
\* invocation has been executed once it is not. No invocation is ever
\* executed twice, and none that was followed by another within wait.
DebounceBurstOnce ==
    \A w \in Debouncers :
        LET c == calls[w]
            e == execs[w]
        IN /\ \A m, n \in 1..Len(e) : m # n => e[m].call # e[n].call
           /\ \A n \in 1..Len(e) :
                /\ e[n].call \in 1..Len(c)
                /\ e[n].arg = c[e[n].call].arg
                /\ e[n].t >= c[e[n].call].t + Wait
                /\ e[n].call < Len(c) => ~Burst(c, e[n].call, e[n].call + 1)
           /\ \A i \in 1..Len(c) :
                Burst(c, i, Len(c)) =>
                    LET ex == {n \in 1..Len(e) : e[n].call \in i..Len(c)}
                    IN /\ Cardinality(ex) = IF Pending(w) = {} THEN 1 ELSE 0
                       /\ \A n \in ex : /\ e[n].call = Len(c)
                                        /\ e[n].arg = Last(c).arg
                                        /\ e[n].t >= Last(c).t + Wait

\* A burst of three invocations at three different instants, the first and
\* the last with different arguments, has been executed.
DebounceBurstOnceWitness ==
    LET c == calls["d1"]
    IN /\ Len(c) = 3
       /\ Burst(c, 1, 3)
       /\ c[1].t < c[2].t /\ c[2].t < c[3].t
       /\ c[1].arg # c[3].arg
       /\ Len(execs["d1"]) = 1
       /\ Pending("d1") = {}

\* C2: throttle: an invocation that arrives while no cooldown is open (no
\* cooldown timer of the wrapper is pending) executes fn at once with its own
\* arguments and opens a cooldown whose timer is due limit later; an
\* invocation that arrives during the cooldown executes nothing and sets no
\* timer; fn is executed in no other step (no trailing call); the cooldown
\* does not close before limit has elapsed since the execution.
ThrottleLeadingOnly ==
    [][\A w \in Throttlers :
         LET open == Pending(w) # {}
             invoked == Len(calls'[w]) = Len(calls[w]) + 1
         IN /\ (invoked /\ ~open) =>
                  /\ execs'[w] = Append(execs[w],
                                   [t |-> now, arg |-> Last(calls'[w]).arg,
                                    call |-> Len(calls'[w]), id |-> 0])
                  /\ \E tm \in timers' : /\ (Pending(w))' = {tm}
                                         /\ tm.due = now + Limit
                  /\ inThrottle'[w]
            /\ (invoked /\ open) =>
                  /\ execs'[w] = execs[w]
                  /\ (Pending(w))' = Pending(w)
            /\ ~invoked => execs'[w] = execs[w]
            /\ (open /\ (Pending(w))' = {}) =>
                  /\ execs[w] # <<>>
                  /\ now >= Last(execs[w]).t + Limit
                  /\ ~inThrottle'[w]
      ]_vars

\* One wrapper has executed an invocation, dropped the next one and executed
\* the third after the cooldown.
ThrottleLeadingOnlyWitness ==
    /\ Len(calls["t1"]) = 3
    /\ Len(execs["t1"]) = 2
    /\ execs["t1"][1].call = 1
    /\ execs["t1"][2].call = 3
    /\ calls["t1"][2].arg # calls["t1"][3].arg

\* C3: throttle: any two executions of fn by one throttled wrapper are at
\* least limit apart.
ThrottleSpacing ==
    \A w \in Throttlers :
        \A m, n \in 1..Len(execs[w]) :
            m < n => execs[w][n].t - execs[w][m].t >= Limit

\* Two executions exactly limit apart.
ThrottleSpacingWitness ==
    \E w \in Throttlers :
        /\ Len(execs[w]) = 2
        /\ execs[w][2].t - execs[w][1].t = Limit

\* C4: debounce: a debounced wrapper has at most one scheduled call pending;
\* an invocation cancels the call scheduled before it, which never executes
\* fn, and schedules one call with the latest arguments, due wait later.
DebounceOnePending ==
    /\ [](\A w \in Debouncers :
            /\ Cardinality(Pending(w)) <= 1
            /\ \A n \in 1..Len(execs[w]) : execs[w][n].id \notin cancelled)
    /\ [][\A w \in Debouncers :
            Len(calls'[w]) > Len(calls[w]) =>
                /\ \A tm \in Pending(w) : tm \notin timers' /\ tm.id \in cancelled'
                /\ \E tm \in timers' : /\ (Pending(w))' = {tm}
                                       /\ tm.arg = Last(calls'[w]).arg
                                       /\ tm.call = Len(calls'[w])
                                       /\ tm.due = now + Wait
         ]_vars

\* A scheduled call has been cancelled by a second invocation, whose own
\* call has been executed.
DebounceOnePendingWitness ==
    /\ Len(calls["d1"]) = 2
    /\ \E id \in cancelled : id = 1
    /\ Len(execs["d1"]) = 1
    /\ execs["d1"][1].call = 2
    /\ Pending("d1") = {}

\* What one wrapper owns: its pending timers, its closure variable and the
\* history of its invocations and executions.
Local(w) == <<Pending(w),
              IF w \in Debouncers THEN timeout[w] ELSE inThrottle[w],
              calls[w], execs[w]>>

\* C5: independently constructed wrappers never interfere: a step in which
\* one wrapper is invoked or one of its timers fires changes nothing that
\* another wrapper owns, cancels only timers of the wrapper that acts, and
\* executes fn only with arguments of an invocation of that same wrapper.
WrappersIndependent ==
    [][\A w \in Wrappers :
         Local(w)' # Local(w) =>
            /\ \A v \in Wrappers \ {w} : Local(v)' = Local(v)
            /\ \A id \in cancelled' \ cancelled : \E tm \in Pending(w) : tm.id = id
            /\ \A n \in 1..Len(execs'[w]) :
                  execs'[w][n].arg = calls'[w][execs'[w][n].call].arg
      ]_vars

\* Both debounced wrappers and a throttled wrapper were in use at once: one
\* debounced call has been executed while the other is still pending and a
\* cooldown is open.
WrappersIndependentWitness ==
    /\ Len(execs["d1"]) = 1
    /\ Pending("d2") # {}
    /\ Pending("t1") # {}
    /\ inThrottle["t1"]

\* C6: once the scheduled callback of a debounced wrapper or the cooldown
\* callback of a throttled wrapper has fired, no timer created by that
\* wrapper is pending, and none is created until the wrapper is invoked
\* again.
TimersReleased ==
    [][\A w \in Wrappers :
         LET fired == IF w \in Debouncers
                      THEN Len(execs'[w]) > Len(execs[w])
                      ELSE inThrottle[w] /\ ~inThrottle'[w]
         IN /\ fired => (Pending(w))' = {}
            /\ ((Pending(w))' \ Pending(w) # {}) => Len(calls'[w]) > Len(calls[w])
      ]_vars

\* Both kinds of callback have fired and nothing is pending.
TimersReleasedWitness ==
    /\ Len(execs["d1"]) = 1
    /\ Len(execs["t1"]) = 1
    /\ ~inThrottle["t1"]
    /\ timers = {}

\* ------------------------------------------------------------ filterBySearch

\* The match of C7: some key names a field whose value is neither null nor
\* undefined and whose string form, lowercased, contains the lowercased term.
ClaimedMatch(item, term, keys) ==
    \E i \in 1..Len(keys) :
        /\ keys[i] \in DOMAIN item
        /\ item[keys[i]].type \notin {"null", "undefined"}
        /\ includes(toLowerCase(toString(item[keys[i]])), toLowerCase(term))

\* C7: filterBySearch with a non-empty term, on records of strings and
\* numbers, retains an item if and only if at least one key names a field
\* whose value is not null/undefined and whose lowercased string form
\* contains the lowercased term; a key that is no field contributes no match.
FilterRetainsMatches ==
    (pc = "done" /\ Truthy(fTerm)) =>
        filtered = SelectSeq(fArray, LAMBDA item : ClaimedMatch(item, fTerm.s, fKeys))

RECURSIVE IsSubsequence(_, _)
IsSubsequence(r, a) ==
    IF r = <<>> THEN TRUE
    ELSE IF a = <<>> THEN FALSE
    ELSE IF Head(r) = Head(a) THEN IsSubsequence(Tail(r), Tail(a))
    ELSE IsSubsequence(r, Tail(a))

\* C8: the result of filterBySearch is a subsequence of its input: only
\* elements of the input, each at most as often, in their original order.
FilterSubsequence == pc = "done" => IsSubsequence(filtered, fArray)

\* Of two different items the first was dropped and the second kept although
\* both of its keys match.
FilterSubsequenceWitness ==
    /\ pc = "done"
    /\ Truthy(fTerm)
    /\ Len(fArray) = 2
    /\ fArray[1] # fArray[2]
    /\ filtered = <<fArray[2]>>
    /\ fKeys = <<"name", "n">>
    /\ \A k \in {"name", "n"} :
          /\ Truthy(Get(fArray[2], k))
          /\ includes(toLowerCase(toString(Get(fArray[2], k))), toLowerCase(fTerm.s))

\* C9: filterBySearch(items, "", keys) returns the elements of items in the
\* same order, for any keys.
FilterEmptyTerm == (pc = "done" /\ fTerm = Str(<<>>)) => filtered = fArray

\* The term is empty and an item has no truthy value under any of the keys.
FilterEmptyTermWitness ==
    /\ pc = "done"
    /\ fTerm = Str(<<>>)
    /\ Len(fArray) = 2
    /\ filtered = fArray
    /\ \E i \in 1..2 : \A j \in 1..Len(fKeys) : ~Truthy(Get(fArray[i], fKeys[j]))
    /\ \E i \in 1..2 : \E j \in 1..Len(fKeys) : Truthy(Get(fArray[i], fKeys[j]))

\* ----------------------------------------------------------------- sortByKey

IndexPermutations(n) == {p \in [1..n -> 1..n] : \A i, j \in 1..n : i # j => p[i] # p[j]}

\* C10: sortByKey is a stable sort: the result is a permutation of items
\* ordered by item[key], ascending for 'asc' and descending for 'desc', and
\* items with equal key values keep the relative order they have in items.
SortStable ==
    pc = "done" =>
        /\ Len(sorted) = Len(sArray)
        /\ \A i, j \in 1..Len(sorted) :
              i < j => IF sOrder = "asc"
                       THEN ~Less(sorted[j][sKey], sorted[i][sKey])
                       ELSE ~Less(sorted[i][sKey], sorted[j][sKey])
        /\ \E p \in IndexPermutations(Len(sArray)) :
              /\ \A i \in 1..Len(sorted) : sorted[i] = sArray[p[i]]
              /\ \A i, j \in 1..Len(sorted) :
                    (i < j /\ sorted[i][sKey] = sorted[j][sKey]) => p[i] < p[j]

\* A descending sort moved a smaller item behind two different items with
\* equal keys, which kept their order.
SortStableWitness ==
    /\ pc = "done"
    /\ sOrder = "desc"
    /\ Len(sArray) = 3
    /\ Less(sArray[1][sKey], sArray[2][sKey])
    /\ sArray[2][sKey] = sArray[3][sKey]
    /\ sArray[2] # sArray[3]
    /\ sorted = <<sArray[2], sArray[3], sArray[1]>>

\* C11: sortByKey never mutates its input: after the call the argument
\* array holds the same elements in the same order as before, and the
\* array returned is another object than the argument.
SortLeavesInput ==
    pc = "done" =>
        /\ sHeap[1] = sArray
        /\ sRet # 1
        /\ sHeap[sRet] = sorted

\* A call whose result differs in order from its argument.
SortLeavesInputWitness ==
    /\ pc = "done"
    /\ Len(sArray) = 3
    /\ sorted # sArray
    /\ sHeap[1] = sArray

\* ------------------------------------------------------------ string helpers

\* C12: slugify is idempotent: for every string s,
\* slugify(slugify(s)) equals slugify(s).
SlugifyIdempotent ==
    (pc = "done" /\ tOut.fn = "slugify" /\ IsString(tIn)) =>
        /\ ~tOut.res.threw
        /\ tOut.again = tOut.res

\* A string with an upper-case letter, a special character and a separator,
\* which slugify turned into a different string with a hyphen in it.
SlugifyIdempotentWitness ==
    /\ pc = "done"
    /\ tOut.fn = "slugify"
    /\ IsString(tIn)
    /\ \E i, j, k \in 1..Len(tIn.s) :
          tIn.s[i] = "A" /\ tIn.s[j] = "!" /\ IsSeparator(tIn.s[k])
    /\ \E i \in 1..Len(tOut.res.v.s) : tOut.res.v.s[i] = "-"

\* C13: truncate(s, n, suffix), for a string s and n >= suffix.length:
\* the result is at most n characters long; it is s itself when
\* s.length <= n, and otherwise the first n - suffix.length characters of s
\* followed by suffix.
TruncateBounded ==
    (/\ pc = "done" /\ tOut.fn = "truncate" /\ IsString(tIn)
     /\ tOut.length >= Len(tOut.suffix)) =>
        /\ ~tOut.res.threw
        /\ IsString(tOut.res.v)
        /\ Len(tOut.res.v.s) <= tOut.length
        /\ IF Len(tIn.s) <= tOut.length
           THEN tOut.res.v = tIn
           ELSE tOut.res.v.s =
                  SubSeq(tIn.s, 1, tOut.length - Len(tOut.suffix)) \o tOut.suffix

\* A string of four characters cut to three: two of its own and the suffix.
TruncateBoundedWitness ==
    /\ pc = "done"
    /\ tOut.fn = "truncate"
    /\ IsString(tIn)
    /\ Len(tIn.s) = 4
    /\ tOut.length = 3
    /\ tOut.suffix = <<".">>
    /\ tOut.res.v.s = <<tIn.s[1], tIn.s[2], ".">>

\* C17: given an empty or a null/undefined string, each of capitalize,
\* slugify, truncate and isNotEmpty returns an empty (or false) result and
\* none of them raises an exception.
StringsDegrade ==
    (pc = "done" /\ tIn \in {Str(<<>>), Null, Undefined}) =>
        /\ ~tOut.res.threw
        /\ ~Truthy(tOut.res.v)

\* The same for the three functions that guard their argument.
GuardedStringsDegrade ==
    (pc = "done" /\ tIn \in {Str(<<>>), Null, Undefined} /\ tOut.fn # "slugify") =>
        /\ ~tOut.res.threw
        /\ ~Truthy(tOut.res.v)

\* ------------------------------------------------------------------- timeAgo

\* The first unit of the table whose interval is at most e seconds.
FirstUnit(e) ==
    CHOOSE i \in 1..Len(Intervals) :
        /\ Intervals[i].secondsInUnit <= e
        /\ \A j \in 1..(i - 1) : Intervals[j].secondsInUnit > e

\* C14: timeAgo, with e the whole seconds elapsed: for e >= 60 the result is
\* "<n> <unit> ago" with unit the first of year, month, week, day, hour,
\* minute whose interval is <= e, n = floor(e / interval) and a plural 's'
\* exactly when n > 1; for 0 <= e < 60 the result is "Just now".
TimeAgoUnits ==
    (pc = "done" /\ tOut.fn = "timeAgo" /\ tIn.sec >= 0) =>
        IF tIn.sec < 60
        THEN tOut.res = JustNow
        ELSE LET u == Intervals[FirstUnit(tIn.sec)]
                 n == tIn.sec \div u.secondsInUnit
             IN /\ tOut.res.text = "ago"
                /\ tOut.res.unit = u.unit
                /\ tOut.res.n = n
                /\ tOut.res.s = (IF n > 1 THEN "s" ELSE "")

\* 3661 seconds ago is "1 hour ago".
TimeAgoUnitsWitness ==
    /\ pc = "done"
    /\ tOut.fn = "timeAgo"
    /\ tIn.sec = 3661
    /\ tOut.res = [text |-> "ago", n |-> 1, unit |-> "hour", s |-> ""]

\* C15: timeAgo returns "Just now" for every input in the future: no unit
\* yields a count >= 1 for a negative elapsed time.
TimeAgoFuture ==
    (pc = "done" /\ tOut.fn = "timeAgo" /\ tIn.sec < 0) => tOut.res = JustNow

\* A date more than a year ahead.
TimeAgoFutureWitness ==
    /\ pc = "done"
    /\ tOut.fn = "timeAgo"
    /\ tIn.sec < -31536000
    /\ tOut.res = JustNow

\* -------------------------------------------------------------- isValidEmail

\* s is local@domain.tld: three non-empty parts, none with whitespace or '@'.
HasEmailForm(s) ==
    \E i, j \in 1..Len(s) :
        /\ 1 < i /\ i + 1 < j /\ j < Len(s)
        /\ s[i] = "@"
        /\ s[j] = "."
        /\ \A k \in 1..Len(s) : k # i => (~IsSpace(s[k]) /\ s[k] # "@")

\* C16: isValidEmail(s) is true if and only if s has the form
\* local@domain.tld where each part is a non-empty run of characters that
\* are neither whitespace nor '@'; a string with two '@' or with whitespace
\* is rejected.
EmailForm ==
    (pc = "done" /\ tOut.fn = "isValidEmail") =>
        /\ tOut.res.v = Bool(HasEmailForm(tIn.s))
        /\ (\E k \in 1..Len(tIn.s) : IsSpace(tIn.s[k])) => tOut.res.v = Bool(FALSE)
        /\ Cardinality({k \in 1..Len(tIn.s) : tIn.s[k] = "@"}) >= 2
              => tOut.res.v = Bool(FALSE)
        /\ tIn.s = <<"a", "@", "a">> => tOut.res.v = Bool(FALSE)
        /\ tIn.s = <<"a", "a", "a">> => tOut.res.v = Bool(FALSE)

\* "a@a.aa" is accepted.
EmailFormWitness ==
    /\ pc = "done"
    /\ tOut.fn = "isValidEmail"
    /\ tIn.s = <<"a", "@", "a", ".", "a", "a">>
    /\ tOut.res.v = Bool(TRUE)

\* ----------------------------------------------------------- Components view

\* C18: the Components search is debounced: an input event of the search
\* field does not change the searchQuery that filteredComponents reads, so the
\* list is not re-filtered on the keystroke.
SearchDebounced ==
    [][keystrokes' # keystrokes =>
           /\ searchQuery' = searchQuery
           /\ filteredComponents' = filteredComponents]_vars

\* --------------------------------------------------------------------- AemForm

\* Some field of the form fails validateField on the current data.
SomeFieldFails ==
    \E k \in 1..Len(fields) : FieldError(fields[k], formData[fields[k].name]) # ""

\* C19: handleSubmit emits 'submit' only when every field passes
\* validateField: an invocation with a failing field emits nothing, sets
\* errorMessage to 'Please fix the errors above', and leaves successMessage
\* empty and loading false; every 'submit' event comes from an invocation in
\* which no field fails.
SubmitOnlyValid ==
    [][/\ (submitCalls' # submitCalls /\ SomeFieldFails) =>
              /\ emitted' = emitted
              /\ errorMessage' = "Please fix the errors above"
              /\ successMessage' = ""
              /\ fLoading' = FALSE
       /\ emitted' # emitted => (submitCalls' # submitCalls /\ ~SomeFieldFails)]_vars

\* handleSubmit was invoked on a form whose email field holds an invalid
\* address that no blur had validated, and refused it.
SubmitOnlyValidWitness ==
    /\ fpc = "idle"
    /\ submitCalls = 1
    /\ emitted = <<>>
    /\ "email" \in DOMAIN formData
    /\ formData["email"] = Str(<<"a">>)
    /\ errors["email"] = "Please enter a valid email address"
    /\ errorMessage = "Please fix the errors above"

\* C20: AemForm reports the outcome of the parent's submit handling:
\* successMessage becomes 'Form submitted successfully!' only once the
\* handleFormSubmit call of that submit has completed without error, and when
\* that call throws while the form that emitted it is still mounted,
\* errorMessage becomes the error's message and successMessage is empty.
FormReportsOutcome ==
    [][/\ (successMessage' = Success /\ successMessage # Success) =>
              (handlers' # <<>> /\ handlers'[Len(handlers')] = "done")
       /\ \A i \in 1..Len(handlers) :
              (/\ i = Len(handlers)
               /\ handlers[i] = "pending"
               /\ handlers'[i] = "threw"
               /\ fpc' # "none"
               /\ emitted[i].instance = instance) =>
                  (errorMessage' = SaveFailed /\ successMessage' = "")]_vars

\* The handleFormSubmit calls still awaiting the API whose 'submit' came from
\* the mounted AemForm instance.
InFlight ==
    {i \in 1..Len(handlers) :
        handlers[i] = "pending" /\ fpc # "none" /\ emitted[i].instance = instance}

\* C21: AemForm is loading for the whole time a submission is being handled:
\* while the handleFormSubmit call of a 'submit' of the mounted form has not
\* settled, loading is true, and no second 'submit' of the same form is in
\* flight with it.
LoadingWhileHandled ==
    /\ InFlight # {} => fLoading
    /\ Cardinality(InFlight) <= 1

\* ------------------------------------------------------ Components view: list

RECURSIVE Without(_, _, _)
\* list from position k on, without the positions in drop.
Without(list, drop, k) ==
    IF k > Len(list) THEN <<>>
    ELSE (IF k \in drop THEN <<>> ELSE <<list[k]>>) \o Without(list, drop, k + 1)

\* C22: deleteComponent removes a component from the local list only after
\* the API delete succeeded: declining the confirmation makes no API call
\* and leaves components unchanged, sending the request leaves components
\* unchanged, a failed delete leaves components unchanged, and a successful
\* delete removes exactly the entries whose id is the deleted id, the others
\* keeping their order.
DeleteAfterSuccess ==
    [][/\ declined' # declined => (requests' = requests /\ components' = components)
       /\ \A r \in 1..Len(requests') :
              requests'[r].kind = "delete" =>
                  /\ r > Len(requests) => components' = components
                  /\ (r <= Len(requests) /\ requests[r].api = "pending"
                          /\ requests'[r].api = "failed") => components' = components
                  /\ (r <= Len(requests) /\ requests[r].api = "pending"
                          /\ requests'[r].api = "ok") =>
                         components' = Without(components,
                             {k \in 1..Len(components) : components[k].id = requests[r].id}, 1)]_vars

\* One confirmation was declined, and a delete of id 1 succeeded on a list
\* that held two entries with id 1: both are gone.
DeleteAfterSuccessWitness ==
    /\ declined = 1
    /\ Len(requests) = 2
    /\ requests[1].kind = "update"
    /\ requests[1].api = "ok"
    /\ requests[2].kind = "delete"
    /\ requests[2].api = "ok"
    /\ requests[2].id = 1
    /\ components = <<>>

\* Request r is a save (update or create) whose API call settles in this step
\* with outcome api.
SaveSettles(r, api) ==
    /\ r <= Len(requests)
    /\ requests[r].kind \in {"update", "create"}
    /\ requests[r].api = "pending"
    /\ requests'[r].api = api

\* C23: handleFormSubmit changes the local list only on API success. An
\* update is sent with the id and the original createdAt of the edited
\* component; when it succeeds, the first entry with that id is replaced in
\* place by the response, every other entry is unchanged, the form is closed
\* and no error is thrown; a successful create appends the response and
\* closes the form; on API failure components and the form are unchanged and
\* the handler throws.
SaveOnlyOnSuccess ==
    [][\A r \in 1..Len(requests') :
          /\ (r > Len(requests) /\ requests'[r].kind = "update") =>
                 /\ requests'[r].id = editingComponent.id
                 /\ requests'[r].body.createdAt = editingComponent.createdAt
                 /\ components' = components
          /\ (SaveSettles(r, "ok") /\ requests[r].kind = "update") =>
                 /\ components' =
                        (IF FindIndex(components, requests[r].id) = 0 THEN components
                         ELSE [components EXCEPT
                                  ![FindIndex(components, requests[r].id)] = ResponseData(r)])
                 /\ showCreateForm' = FALSE
                 /\ requests'[r].handler = "done"
          /\ (SaveSettles(r, "ok") /\ requests[r].kind = "create") =>
                 /\ components' = Append(components, ResponseData(r))
                 /\ showCreateForm' = FALSE
                 /\ requests'[r].handler = "done"
          /\ SaveSettles(r, "failed") =>
                 /\ components' = components
                 /\ showCreateForm' = showCreateForm
                 /\ requests'[r].handler = "threw"]_vars

\* C24: when the update for component A resolves successfully, then in every
\* interleaving with closeForm, editComponent and deleteComponent, after
\* handleFormSubmit has settled every entry with A's id that was in the list
\* is the response data and no other entry has changed.
UpdateHitsOwnEntry ==
    [][\A r \in 1..Len(requests) :
          (SaveSettles(r, "ok") /\ requests[r].kind = "update") =>
              /\ Len(components') = Len(components)
              /\ \A k \in 1..Len(components) :
                     IF k = FindIndex(components, requests[r].id)
                     THEN components'[k] = ResponseData(r)
                     ELSE components'[k] = components[k]]_vars

\* ------------------------------------------------------------ ComponentDetail

\* C25: once all in-flight getById requests have settled, ComponentDetail
\* reflects the request for the latest id: loading is false, and when that
\* request succeeded component is its response and error is null, and when
\* it failed error is set.
DetailShowsLatest ==
    (\A r \in 1..Len(detailRequests) : detailRequests[r].status # "pending") =>
        LET latest == detailRequests[Len(detailRequests)]
        IN /\ latest.id = detailId
           /\ ~detailLoading
           /\ latest.status = "ok" =>
                  (detailComponent = Detail(detailId) /\ detailError = Null)
           /\ latest.status = "failed" => detailError # Null

\* ------------------------------------------------------------------ Dashboard

\* C26: Dashboard loading is true whenever a statistics request is in
\* flight, and once no request is in flight error is null if and only if
\* the request that settled last succeeded.
DashLoadingTracksRequests ==
    /\ (\E r \in 1..Len(statsRequests) : statsRequests[r].status = "pending")
           => dashLoading
    /\ (\A r \in 1..Len(statsRequests) : statsRequests[r].status # "pending") =>
           /\ ~dashLoading
           /\ \A r \in 1..Len(statsRequests) :
                  statsRequests[r].order = Len(statsRequests) =>
                      (dashError = Null <=> statsRequests[r].status = "ok")

====
